---- MODULE Spec2Model ----
(***************************************************************************)
(* DuckBuck backend: the identity-token verification cache and revocation  *)
(* set (firebase-auth.middleware.js, kept in src/README.md from line 256)  *)
(* and the IP abuse tracker (security.middleware.js).                      *)
(*                                                                         *)
(* Time: `clock` is Date.now()/1000 of the auth middleware, counted in     *)
(* ticks; BufferTicks is the 300 s cache buffer in those ticks.  `clockMs` *)
(* is Date.now() of the abuse tracker, in ticks of its own.                *)
(***************************************************************************)
EXTENDS Integers, Sequences, FiniteSets, Bags

\* ------------------------------------------------------------------ bounds

\* last clock value of the auth middleware (ticks)
MaxNow == 4
\* revokedTokens.size ceiling of revokeToken (1000 in the source), scaled
RevokedCeiling == 2
\* the 300 s that the scheduled cache removal is brought forward, in ticks
BufferTicks == 2
\* last clock value of the abuse tracker (ticks)
MaxNowMs == 3
\* IP_BLACKLIST_THRESHOLD of the environment (100 when unset)
Threshold == 2
\* IP_BLACKLIST_WINDOW_MS of the environment (3600000 when unset), in ticks
Window == 2
\* removal callbacks waiting at once when two requests are in flight
MaxPending == 2
\* windowMs of the email service (24 hours), in ticks
MailWindow == 2
\* last clock value of the email service (ticks)
MaxMailNow == 3
\* const maxEmails = 5
maxEmails == 5

\* --------------------------------------------------------- program constants

\* idToken.length < 50 is rejected
MinTokenLen == 50
\* idToken.length > 4096 is rejected
MaxTokenLen == 4096

\* ------------------------------------------------------------------ tokens

\* Bearer tokens of plausible length: one more than the ceiling, so that the
\* revocation set can overflow.
GoodTokens == 1 .. (RevokedCeiling + 1)
\* "Bearer " followed by nothing, a 49-character token, a 4097-character token
EmptyToken == RevokedCeiling + 2
ShortToken == RevokedCeiling + 3
LongToken == RevokedCeiling + 4
Tokens == GoodTokens \cup {EmptyToken, ShortToken, LongToken}
\* req.headers.authorization absent or without the Bearer prefix
NoHeader == 0
Headers == {NoHeader} \cup Tokens

\* idToken.length: the good tokens sit on the two edges of the band and inside
TokenLen(t) ==
  IF t = EmptyToken THEN 0
  ELSE IF t = ShortToken THEN MinTokenLen - 1
  ELSE IF t = LongToken THEN MaxTokenLen + 1
  ELSE IF t = 1 THEN MinTokenLen
  ELSE IF t = 2 THEN MaxTokenLen
  ELSE 1200

\* the exp claim the identity provider signed into token t (ticks): token 1
\* has less than the buffer to live at clock 0, token 3 outlives MaxNow - 1,
\* and any further token expired before the run starts
TokenExp(t) == IF t = 1 THEN 1 ELSE IF t = 2 THEN 3 ELSE IF t = 3 THEN MaxNow ELSE 0

\* decoded token returned by admin.auth().verifyIdToken
Decoded(t) == [uid |-> t, exp |-> TokenExp(t)]
\* validatedTokens.get(idToken) === undefined
NoVerdict == [uid |-> 0, exp |-> 0]

\* error.code values thrown by verifyIdToken; the last three have no case of
\* their own in the middleware's switch
ClassifiedCodes ==
  {"auth/id-token-expired", "auth/id-token-revoked", "auth/argument-error",
   "auth/invalid-id-token"}
UnavailableCodes == {"app/network-error", "app/network-timeout"}
UnclassifiedCodes == {"auth/user-disabled"}
ErrorCodes == ClassifiedCodes \cup UnavailableCodes \cup UnclassifiedCodes

\* ---------------------------------------------------------------- responses

RespNotInitialized == [status |-> 500, message |-> "Authentication service unavailable"]
RespNoBearer == [status |-> 401, message |-> "Unauthorized: Authentication required"]
RespEmptyToken == [status |-> 401, message |-> "Unauthorized: Invalid authentication format"]
RespMalformed == [status |-> 401, message |-> "Unauthorized: Invalid token format"]
RespRevoked == [status |-> 401, message |-> "Unauthorized: Token has been revoked"]
RespExpired == [status |-> 401, message |-> "Unauthorized: Authentication expired"]
RespUpstreamRevoked == [status |-> 401, message |-> "Unauthorized: Authentication revoked"]
RespBadRequest == [status |-> 400, message |-> "Bad Request: Invalid authentication format"]
RespInvalid == [status |-> 401, message |-> "Unauthorized: Invalid authentication"]
RespDenied == [status |-> 403, message |-> "Access Denied"]

\* ------------------------------------------------------------------- state

VARIABLES
  firebaseInitialized, \* module flag set when the Admin SDK was initialised
  clock,               \* Date.now() / 1000
  revokedTokens,       \* const revokedTokens = new Set()
  validatedTokens,     \* const validatedTokens = new Map(): token -> decoded
  timers,              \* pending setTimeout callbacks: [token, at] -> count
  req,                 \* the requests inside firebaseAuthMiddleware
  revokeLog,           \* history: tokens revoked since the last clear()
  lostRevocations,     \* history: tokens a clear() took out of the set
                       \* and that were not added to it again since
  clockMs,             \* Date.now() of the abuse tracker
  ipLog,               \* failedRequestTracker.ipLog: ip -> attempt timestamps
  blacklist,           \* failedRequestTracker.blacklist
  failures,            \* history: every recordFailure call's time, per ip
  exceeded,            \* history: ips that ever had more than Threshold
                       \* failures inside one trailing window
  sec,                 \* the last request through securityMiddleware and
                       \* what the middleware did with it
  emailRecipientTracker, \* new Map(): recipient -> {count, timestamp}
  mailClock,           \* Date.now() of the email service
  mailLast,            \* the last send call and whether it reached sendMail
  mailLog,             \* history: per recipient, the times of the calls
                       \* that were not rate limited
  route                \* the requests inside a router guarded by
                       \* requestTimeout and apiKeyAuth

authVars == <<firebaseInitialized, clock, revokedTokens, validatedTokens, timers,
              req, revokeLog, lostRevocations>>
trackerVars == <<clockMs, ipLog, blacklist, failures, exceeded>>
gateVars == <<sec>>
mailVars == <<emailRecipientTracker, mailClock, mailLast, mailLog>>
routeVars == <<route>>
edgeVars == <<gateVars, mailVars, routeVars>>
vars == <<authVars, trackerVars, edgeVars>>

\* Request slots: the default specification runs one request at a time
\* through the middleware; its await still interleaves with revocations,
\* timers and the clock.
AllReqs == {1, 2}
Reqs == {1}

\* A request that is not inside the middleware.
Idle ==
  [pc |-> "idle", token |-> NoHeader, now |-> 0, sent |-> <<>>, nexts |-> 0,
   user |-> NoVerdict, src |-> "none", upstream |-> 0, lookups |-> {},
   result |-> "none", swept |-> FALSE, lost |-> FALSE]

\* return res.status(..).json(..): the handler ends with one response
Reject(h, resp, looked) ==
  [Idle EXCEPT !.pc = "done", !.token = h, !.sent = <<resp>>, !.lookups = looked]

\* req.user = decodedToken; next()
Accept(r, decoded, from) ==
  [r EXCEPT !.pc = "done", !.now = 0, !.user = decoded, !.src = from,
            !.nexts = r.nexts + 1]

\* --------------------------------------------------------- revocation set

isTokenRevoked(token, set) == token \in set

\* mutant: the set grows without a ceiling
revokeTokenUnbounded(token, set) == set \cup {token}

\* mutant: at the ceiling the new token is turned away and the set kept
revokeTokenKeepsOld(token, set) ==
  IF Cardinality(set \cup {token}) > RevokedCeiling THEN set ELSE set \cup {token}

\* revokedTokens after revokeToken(token)
revokeToken(token, set) ==
  IF Cardinality(set \cup {token}) > RevokedCeiling THEN {} ELSE set \cup {token}

\* whether revokeToken(token) runs revokedTokens.clear()
RevokeClears(token, set) == Cardinality(set \cup {token}) > RevokedCeiling

\* history kept beside revokeToken(token): the tokens revoked since the last
\* clear(), and the tokens that a clear() took out of the set and that were
\* not added to it again since
LogRevoke(token) ==
  IF RevokeClears(token, revokedTokens)
  THEN /\ revokeLog' = {}
       /\ lostRevocations' = lostRevocations \cup revokedTokens
  ELSE /\ revokeLog' = revokeLog \cup {token}
       /\ lostRevocations' = lostRevocations \ {token}

\* ------------------------------------------------------------ verification

\* idToken.length < 50 || idToken.length > 4096
SuspiciousLength(t) == TokenLen(t) < MinTokenLen \/ TokenLen(t) > MaxTokenLen

\* mutant: the entry is still used in the tick in which it expires
CacheUsableAtExpiry(cached, now) == cached # NoVerdict /\ cached.exp >= now

\* cached && cached.exp > now
CacheUsable(cached, now) == cached # NoVerdict /\ cached.exp > now

\* mutant: the cache is looked up before the revocation set
BeginVerifyCacheFirst(h, initialized, now, revoked, cache) ==
  IF ~initialized THEN Reject(h, RespNotInitialized, {})
  ELSE IF h = NoHeader THEN Reject(h, RespNoBearer, {})
  ELSE IF TokenLen(h) = 0 THEN Reject(h, RespEmptyToken, {})
  ELSE IF SuspiciousLength(h) THEN Reject(h, RespMalformed, {})
  ELSE IF CacheUsable(cache[h], now)
    THEN Accept([Idle EXCEPT !.token = h, !.lookups = {"cache"}], cache[h], "cache")
  ELSE IF isTokenRevoked(h, revoked)
    THEN Reject(h, RespRevoked, {"revocation", "cache"})
    ELSE [Idle EXCEPT !.pc = "awaiting", !.token = h, !.now = now,
                      !.upstream = 1, !.lookups = {"revocation", "cache"}]

\* mutant: the length check comes after the revocation check
BeginVerifyLengthLate(h, initialized, now, revoked, cache) ==
  IF ~initialized THEN Reject(h, RespNotInitialized, {})
  ELSE IF h = NoHeader THEN Reject(h, RespNoBearer, {})
  ELSE IF TokenLen(h) = 0 THEN Reject(h, RespEmptyToken, {})
  ELSE IF isTokenRevoked(h, revoked) THEN Reject(h, RespRevoked, {"revocation"})
  ELSE IF SuspiciousLength(h) THEN Reject(h, RespMalformed, {"revocation"})
  ELSE IF CacheUsable(cache[h], now)
    THEN Accept([Idle EXCEPT !.token = h, !.lookups = {"revocation", "cache"}],
                cache[h], "cache")
    ELSE [Idle EXCEPT !.pc = "awaiting", !.token = h, !.now = now,
                      !.upstream = 1, !.lookups = {"revocation", "cache"}]

\* mutant: a hit needs the entry to outlive the 300 s buffer as well
BeginVerifyBuffered(h, initialized, now, revoked, cache) ==
  IF ~initialized THEN Reject(h, RespNotInitialized, {})
  ELSE IF h = NoHeader THEN Reject(h, RespNoBearer, {})
  ELSE IF TokenLen(h) = 0 THEN Reject(h, RespEmptyToken, {})
  ELSE IF SuspiciousLength(h) THEN Reject(h, RespMalformed, {})
  ELSE IF isTokenRevoked(h, revoked) THEN Reject(h, RespRevoked, {"revocation"})
  ELSE IF CacheUsable(cache[h], now + BufferTicks)
    THEN Accept([Idle EXCEPT !.token = h, !.lookups = {"revocation", "cache"}],
                cache[h], "cache")
    ELSE [Idle EXCEPT !.pc = "awaiting", !.token = h, !.now = now,
                      !.upstream = 1, !.lookups = {"revocation", "cache"}]

\* The middleware from its entry to its first await or its return: the
\* request record it leaves.
BeginVerify(h, initialized, now, revoked, cache) ==
  IF ~initialized THEN Reject(h, RespNotInitialized, {})
  ELSE IF h = NoHeader THEN Reject(h, RespNoBearer, {})
  ELSE IF TokenLen(h) = 0 THEN Reject(h, RespEmptyToken, {})
  ELSE IF SuspiciousLength(h) THEN Reject(h, RespMalformed, {})
  ELSE IF isTokenRevoked(h, revoked) THEN Reject(h, RespRevoked, {"revocation"})
  ELSE IF CacheUsable(cache[h], now)
    THEN Accept([Idle EXCEPT !.token = h, !.lookups = {"revocation", "cache"}],
                cache[h], "cache")
    ELSE [Idle EXCEPT !.pc = "awaiting", !.token = h, !.now = now,
                      !.upstream = 1, !.lookups = {"revocation", "cache"}]

\* mutant: the default case answers like auth/invalid-id-token
ErrorResponseDefaultInvalid(code) ==
  CASE code = "auth/id-token-expired" -> RespExpired
    [] code = "auth/id-token-revoked" -> RespUpstreamRevoked
    [] code = "auth/argument-error" -> RespBadRequest
    [] OTHER -> RespInvalid

\* the switch on error.code of the catch block
ErrorResponse(code) ==
  CASE code = "auth/id-token-expired" -> RespExpired
    [] code = "auth/id-token-revoked" -> RespUpstreamRevoked
    [] code = "auth/argument-error" -> RespBadRequest
    [] code = "auth/invalid-id-token" -> RespInvalid
    [] OTHER -> RespDenied

\* mutant: a switch without its default case sends nothing for other codes
CatchNoDefault(r, code) ==
  [r EXCEPT !.pc = "done", !.now = 0, !.result = code,
            !.sent = IF code \in ClassifiedCodes
                     THEN Append(r.sent, ErrorResponse(code)) ELSE r.sent]

\* the catch block: the request record it leaves
Catch(r, code) ==
  [r EXCEPT !.pc = "done", !.now = 0, !.result = code,
            !.sent = Append(r.sent, ErrorResponse(code))]

\* revokedTokens after the catch block
CatchRevoked(token, code, set) ==
  IF code = "auth/id-token-revoked" THEN revokeToken(token, set) ELSE set

\* mutant: the loop spares an entry in the second in which it expires
SweepCacheSparesDue(cache, nowSeconds) ==
  [t \in DOMAIN cache |->
     IF cache[t] # NoVerdict /\ cache[t].exp < nowSeconds THEN NoVerdict
     ELSE cache[t]]

\* the occasional clean-up loop: delete every entry with value.exp <= nowSeconds
SweepCache(cache, nowSeconds) ==
  [t \in DOMAIN cache |->
     IF cache[t] # NoVerdict /\ cache[t].exp <= nowSeconds THEN NoVerdict
     ELSE cache[t]]

\* mutant: the verdict is filed under another token's key
StoreVerdictOtherKey(cache, token, decoded) ==
  IF decoded.exp # 0 THEN [cache EXCEPT ![IF token = 1 THEN 2 ELSE 1] = decoded]
  ELSE cache

\* validatedTokens.set(idToken, decodedToken), guarded by decodedToken.exp
StoreVerdict(cache, token, decoded) ==
  IF decoded.exp # 0 THEN [cache EXCEPT ![token] = decoded] ELSE cache

\* mutant: the delay is decodedToken.exp - now, with no buffer taken off
TimerAtNoBuffer(decoded, now, scheduledAt) ==
  LET delay == decoded.exp - now
  IN scheduledAt + (IF delay > 0 THEN delay ELSE 0)

\* setTimeout delay (decodedToken.exp - now - 300) * 1000; a delay below 1 ms
\* runs the callback on the next timer phase
TimerAt(decoded, now, scheduledAt) ==
  LET delay == decoded.exp - now - BufferTicks
  IN scheduledAt + (IF delay > 0 THEN delay ELSE 0)

\* mutant: setTimeout is never called
AddTimerDropped(ts, tm) == ts

\* setTimeout(callback, delay): one more pending callback
AddTimer(ts, tm) ==
  IF tm \in DOMAIN ts THEN [ts EXCEPT ![tm] = @ + 1]
  ELSE [x \in DOMAIN ts \cup {tm} |-> IF x = tm THEN 1 ELSE ts[x]]

RemoveTimer(ts, tm) ==
  IF ts[tm] > 1 THEN [ts EXCEPT ![tm] = @ - 1]
  ELSE [x \in DOMAIN ts \ {tm} |-> ts[x]]

NoTimers == [x \in {} |-> 0]

\* ------------------------------------------------------------ abuse tracker

Addresses == {"203.0.113.5", "198.51.100.7"}

\* recordFailure calls per address that a run makes
MaxFailures == Threshold + 2

\* new Map()
NoLog == [ip \in {} |-> <<>>]

\* mutant: every recorded attempt counts, however old
RecentAttemptsAll(attempts, now) == attempts

\* attempts.filter(time => (now - time) < window)
RecentAttempts(attempts, now) == SelectSeq(attempts, LAMBDA time : (now - time) < Window)

\* this.ipLog.set(ip, list)
LogSet(log, ip, list) ==
  [a \in DOMAIN log \cup {ip} |-> IF a = ip THEN list ELSE log[a]]

\* mutant: the call prunes every address's record, not only its own
recordFailureLogPrunesAll(log, ip, now) ==
  LET attempts == IF ip \in DOMAIN log THEN log[ip] ELSE <<>>
  IN [a \in DOMAIN log \cup {ip} |->
        IF a = ip THEN RecentAttempts(Append(attempts, now), now)
        ELSE RecentAttempts(log[a], now)]

\* ipLog after recordFailure(ip) at time now
recordFailureLog(log, ip, now) ==
  LET attempts == IF ip \in DOMAIN log THEN log[ip] ELSE <<>>
  IN LogSet(log, ip, RecentAttempts(Append(attempts, now), now))

\* mutant: the blacklist is replaced by the one address instead of added to
recordFailureBlacklistReplaces(log, black, ip, now) ==
  IF Len(recordFailureLog(log, ip, now)[ip]) > Threshold THEN {ip} ELSE black

\* mutant: the comparison is off by one
recordFailureBlacklistLate(log, black, ip, now) ==
  IF Len(recordFailureLog(log, ip, now)[ip]) > Threshold + 1 THEN black \cup {ip}
  ELSE black

\* blacklist after recordFailure(ip) at time now
recordFailureBlacklist(log, black, ip, now) ==
  IF Len(recordFailureLog(log, ip, now)[ip]) > Threshold THEN black \cup {ip}
  ELSE black

isBlacklisted(ip, black) == ip \in black

\* mutant: an emptied record is kept under its address
cleanupLogKeepsEmpty(log, now) == [ip \in DOMAIN log |-> RecentAttempts(log[ip], now)]

\* ipLog after cleanup() at time now
cleanupLog(log, now) ==
  LET kept == {ip \in DOMAIN log : Len(RecentAttempts(log[ip], now)) # 0}
  IN [ip \in kept |-> RecentAttempts(log[ip], now)]

\* mutant: cleanup() also lifts the block of an address whose record it drops
cleanupBlacklistUnblocks(log, black, now) ==
  black \ {ip \in DOMAIN log : Len(RecentAttempts(log[ip], now)) = 0}

\* blacklist after cleanup(): the loop never touches it
cleanupBlacklist(log, black, now) == black

\* calls among `calls` that lie inside the window trailing `now`
InWindow(calls, now) == {i \in 1 .. Len(calls) : (now - calls[i]) < Window}

\* ------------------------------------------------------ securityMiddleware

\* Text is a sequence of pieces; includes() looks for a piece.
\* String.prototype.toLowerCase, piece by piece
LowerPiece(piece) ==
  CASE piece = "SQLMap" -> "sqlmap"
    [] piece = "Nikto" -> "nikto"
    [] piece = "UNION SELECT" -> "union select"
    [] piece = "<SCRIPT>" -> "<script>"
    [] OTHER -> piece

toLowerCase(text) == [i \in 1 .. Len(text) |-> LowerPiece(text[i])]

\* String.prototype.includes
includes(text, piece) == \E i \in 1 .. Len(text) : text[i] = piece

suspiciousAgents ==
  {"sqlmap", "nikto", "nessus", "dirbuster", "nmap", "burpsuite", "hydra",
   "harvester", "masscan", "zmap", "w3af", "metasploit"}

maliciousPatterns ==
  {"union select", "exec(", "eval(", "<script>", "javascript:", "onload=",
   "onerror=", "1=1;", "drop table", "alert(", "document.cookie", "-->"}

\* the address whose requests the run follows through the middleware
Clients == {"203.0.113.5"}

Methods == {"GET", "POST", "DELETE"}

\* req.headers['user-agent'] || ''
UserAgents == {<<"Mozilla/5.0">>, <<"SQLMap", "/1.7">>}

\* req.headers['content-type'] || ''
ContentTypes ==
  {<<>>, <<"application/json">>, <<"application/json", "; charset=utf-8">>,
   <<"multipart/form-data", "; boundary=x">>, <<"text/plain">>}

\* JSON.stringify(req.body) and JSON.stringify(req.query)
CleanPayload == [body |-> <<"{}">>, query |-> <<"{}">>]
BodyAttack == [body |-> <<"{\"q\":\"", "UNION SELECT", "\"}">>, query |-> <<"{}">>]
QueryAttack == [body |-> <<"{}">>, query |-> <<"{\"q\":\"", "<script>", "\"}">>]

Request(ip, method, userAgent, contentType, payload) ==
  [ip |-> ip, method |-> method, userAgent |-> userAgent,
   contentType |-> contentType, body |-> payload.body, query |-> payload.query]

\* every method with every content type from a browser, and the requests of
\* a scanner and of an injection attempt
Requests ==
  {Request(ip, method, <<"Mozilla/5.0">>, contentType, CleanPayload) :
     ip \in Clients, method \in Methods, contentType \in ContentTypes}
  \cup {Request(ip, "GET", <<"SQLMap", "/1.7">>, <<>>, CleanPayload) : ip \in Clients}
  \cup {Request(ip, "POST", <<"SQLMap", "/1.7">>, <<"text/plain">>, BodyAttack) :
          ip \in Clients}
  \cup {Request(ip, "POST", <<"Mozilla/5.0">>, <<"application/json">>, BodyAttack) :
          ip \in Clients}
  \cup {Request(ip, "GET", <<"Mozilla/5.0">>, <<>>, QueryAttack) : ip \in Clients}
  \cup {Request(ip, "DELETE", <<"Mozilla/5.0">>, <<"text/plain">>, QueryAttack) :
          ip \in Clients}

\* no request has come through yet
NoCall ==
  [request |-> [ip |-> "", method |-> "", userAgent |-> <<>>, contentType |-> <<>>,
                body |-> <<>>, query |-> <<>>],
   status |-> 0, message |-> "", nexts |-> 0, recorded |-> 0, headers |-> FALSE]

\* suspiciousAgents.some(agent => userAgent.toLowerCase().includes(agent))
SuspiciousAgent(rq) ==
  LET lower == toLowerCase(rq.userAgent)
  IN \E agent \in suspiciousAgents : includes(lower, agent)

\* maliciousPatterns.some(pattern =>
\*   requestBody.includes(pattern) || requestQuery.includes(pattern))
MaliciousPattern(rq) ==
  LET requestBody == toLowerCase(rq.body)
      requestQuery == toLowerCase(rq.query)
  IN \E pattern \in maliciousPatterns :
       includes(requestBody, pattern) \/ includes(requestQuery, pattern)

\* req.method === 'POST' && contentType !== 'application/json' &&
\* !contentType.includes('application/x-www-form-urlencoded') &&
\* !contentType.includes('multipart/form-data')
InvalidContentType(rq) ==
  /\ rq.method = "POST"
  /\ rq.contentType # <<"application/json">>
  /\ ~includes(rq.contentType, "application/x-www-form-urlencoded")
  /\ ~includes(rq.contentType, "multipart/form-data")

\* what the middleware does with the request
Outcome(rq, st, msg, nx, rec, hd) ==
  [request |-> rq, status |-> st, message |-> msg, nexts |-> nx,
   recorded |-> rec, headers |-> hd]

\* mutant: the blacklist is looked at after the checks of the request
securityOutcomeBlacklistLast(rq, black) ==
  IF SuspiciousAgent(rq) THEN Outcome(rq, 403, "Access denied", 0, 1, TRUE)
  ELSE IF MaliciousPattern(rq) THEN Outcome(rq, 400, "Invalid request", 0, 1, TRUE)
  ELSE IF InvalidContentType(rq)
    THEN Outcome(rq, 400, "Invalid content type", 0, 1, TRUE)
  ELSE IF isBlacklisted(rq.ip, black)
    THEN Outcome(rq, 403, "Access denied", 0, 0, TRUE)
  ELSE Outcome(rq, 0, "", 1, 0, TRUE)

\* securityMiddleware from its entry to its return: the response or next(),
\* the recordFailure calls made and whether the security headers were set
securityOutcome(rq, black) ==
  IF isBlacklisted(rq.ip, black) THEN Outcome(rq, 403, "Access denied", 0, 0, FALSE)
  ELSE IF SuspiciousAgent(rq) THEN Outcome(rq, 403, "Access denied", 0, 1, TRUE)
  ELSE IF MaliciousPattern(rq) THEN Outcome(rq, 400, "Invalid request", 0, 1, TRUE)
  ELSE IF InvalidContentType(rq)
    THEN Outcome(rq, 400, "Invalid content type", 0, 1, TRUE)
  ELSE Outcome(rq, 0, "", 1, 0, TRUE)

\* ----------------------------------------------------------- email service

Recipients == {"ann@example.com", "bob@example.com"}

\* calls per recipient that a run lets through
MaxMails == maxEmails + 2

\* new Map()
NoRecipients == [email \in {} |-> [count |-> 0, timestamp |-> 0]]

\* no send function has been called yet
NoSend == [email |-> "", limited |-> FALSE, sent |-> FALSE]

\* the clean-up loop: delete every entry with now - data.timestamp > windowMs
cleanupRecipients(tracker, now) ==
  [email \in {e \in DOMAIN tracker : ~(now - tracker[e].timestamp > MailWindow)}
     |-> tracker[email]]

\* emailRecipientTracker.get(email) || { count: 0, timestamp: now }
recipientData(tracker, email, now) ==
  IF email \in DOMAIN tracker THEN tracker[email]
  ELSE [count |-> 0, timestamp |-> now]

\* emailRecipientTracker.set(email, data)
setRecipient(tracker, email, data) ==
  [e \in DOMAIN tracker \cup {email} |-> IF e = email THEN data ELSE tracker[e]]

\* mutant: the sixth email of a window is let through
shouldRateLimitRecipientLate(tracker, email, now) ==
  LET data == recipientData(tracker, email, now)
  IN IF now - data.timestamp > MailWindow THEN FALSE
     ELSE data.count > maxEmails

\* the value shouldRateLimitRecipient(email) returns, the clean-up done
shouldRateLimitRecipient(tracker, email, now) ==
  LET data == recipientData(tracker, email, now)
  IN IF now - data.timestamp > MailWindow THEN FALSE
     ELSE data.count >= maxEmails

\* mutant: a refused call restarts the recipient's window
recipientTrackerAfterExtends(tracker, email, now) ==
  LET data == recipientData(tracker, email, now)
  IN IF now - data.timestamp > MailWindow
     THEN setRecipient(tracker, email, [count |-> 1, timestamp |-> now])
     ELSE IF data.count >= maxEmails
     THEN setRecipient(tracker, email, [count |-> data.count, timestamp |-> now])
     ELSE setRecipient(tracker, email,
                       [count |-> data.count + 1, timestamp |-> data.timestamp])

\* emailRecipientTracker when shouldRateLimitRecipient(email) returns, the
\* clean-up done
recipientTrackerAfter(tracker, email, now) ==
  LET data == recipientData(tracker, email, now)
  IN IF now - data.timestamp > MailWindow
     THEN setRecipient(tracker, email, [count |-> 1, timestamp |-> now])
     ELSE IF data.count >= maxEmails THEN tracker
     ELSE setRecipient(tracker, email,
                       [count |-> data.count + 1, timestamp |-> data.timestamp])

\* ------------------------------------------- requestTimeout and apiKeyAuth

\* req.headers['x-api-key'] is undefined
NoApiKey == <<"undefined">>

\* keys are sequences of characters
KeyChars == {"a", "b"}
Keys == {<<>>} \cup {<<c>> : c \in KeyChars} \cup {<<c, d>> : c \in KeyChars, d \in KeyChars}

\* the x-api-key header of a request
KeyHeaders == {NoApiKey} \cup Keys

\* process.env.API_KEY || ''
ConfiguredKeys == {<<>>, <<"a">>, <<"a", "b">>}

RespKeyRequired == [status |-> 401, message |-> "Authentication required"]
RespKeyDenied == [status |-> 403, message |-> "Access denied"]
RespKeyFailed == [status |-> 401, message |-> "Authentication failed"]
RespTimeout == [status |-> 408, message |-> "Request timeout"]
RespHandler == [status |-> 200, message |-> "handler"]

\* A request that is not inside the router.
NotRouted ==
  [pc |-> "idle", key |-> NoApiKey, configured |-> <<>>, timer |-> "none",
   headersSent |-> FALSE, sent |-> <<>>, attempts |-> 0, nexts |-> 0]

\* crypto.timingSafeEqual(Buffer.from(a), Buffer.from(b)): throws when the
\* lengths differ, else compares byte by byte
timingSafeEqual(a, b) ==
  IF Len(a) # Len(b) THEN "throws"
  ELSE IF \A i \in 1 .. Len(a) : a[i] = b[i] THEN "true" ELSE "false"

\* mutant: keys of different length are compared over the shorter one
apiKeyAuthPrefix(key, configured) ==
  IF key = NoApiKey \/ key = <<>> THEN RespKeyRequired
  ELSE IF \A i \in 1 .. Len(key) : i <= Len(configured) => key[i] = configured[i]
    THEN [status |-> 0, message |-> "next"]
  ELSE RespKeyDenied

\* apiKeyAuth: the response it sends, or next()
apiKeyAuth(key, configured) ==
  IF key = NoApiKey \/ key = <<>> THEN RespKeyRequired
  ELSE LET isValid == timingSafeEqual(key, configured)
       IN IF isValid = "throws" THEN RespKeyFailed
          ELSE IF isValid = "false" THEN RespKeyDenied
          ELSE [status |-> 0, message |-> "next"]

\* res.status(..).json(..) on a response: headers already sent make it throw
\* and nothing goes out; either way the send was attempted
resJson(r, resp) ==
  [r EXCEPT !.attempts = r.attempts + 1,
            !.sent = IF r.headersSent THEN r.sent ELSE Append(r.sent, resp),
            !.headersSent = TRUE]

\* the setTimeout callback of requestTimeout: it sends 408 unless
\* res.headersSent
timeoutCallback(r) ==
  IF ~r.headersSent THEN [resJson(r, RespTimeout) EXCEPT !.timer = "fired"]
  ELSE [r EXCEPT !.timer = "fired"]

\* ------------------------------------------------------------------ actions

Init ==
  /\ firebaseInitialized \in BOOLEAN
  /\ clock = 0
  /\ revokedTokens = {}
  /\ validatedTokens = [t \in GoodTokens |-> NoVerdict]
  /\ timers = NoTimers
  /\ req = [r \in AllReqs |-> Idle]
  /\ revokeLog = {}
  /\ lostRevocations = {}
  /\ clockMs = 0
  /\ ipLog = NoLog
  /\ blacklist = {}
  /\ failures = [ip \in Addresses |-> <<>>]
  /\ exceeded = {}
  /\ sec = NoCall
  /\ emailRecipientTracker = NoRecipients
  /\ mailClock = 0
  /\ mailLast = NoSend
  /\ mailLog = [email \in Recipients |-> <<>>]
  /\ route = [r \in AllReqs |-> NotRouted]

\* A request enters firebaseAuthMiddleware and runs to its await or its return.
\* sweep is Math.random() < 0.01 on the cache-hit path.
Verify(r, h, sweep) ==
  /\ req[r].pc = "idle"
  /\ LET out == BeginVerify(h, firebaseInitialized, clock, revokedTokens,
                            validatedTokens)
     IN /\ req' = [req EXCEPT ![r] =
                       [out EXCEPT !.swept = out.src = "cache" /\ sweep,
                                   !.lost = h \in lostRevocations]]
        /\ validatedTokens' =
             IF out.src = "cache" /\ sweep THEN SweepCache(validatedTokens, clock)
             ELSE validatedTokens
  /\ UNCHANGED <<firebaseInitialized, clock, revokedTokens, timers, revokeLog, lostRevocations>>
  /\ UNCHANGED <<trackerVars, edgeVars>>

\* verifyIdToken resolves: the verdict is stored, its removal scheduled, the
\* request passed on.  The provider accepts a token only before its exp.
UpstreamOk(r, sweep) ==
  /\ req[r].pc = "awaiting"
  /\ TokenExp(req[r].token) > clock
  /\ LET t == req[r].token
         decoded == Decoded(t)
         stored == StoreVerdict(validatedTokens, t, decoded)
     IN /\ validatedTokens' = IF sweep THEN SweepCache(stored, clock) ELSE stored
        /\ timers' = IF decoded.exp # 0
                     THEN AddTimer(timers, [token |-> t,
                                            at |-> TimerAt(decoded, req[r].now, clock)])
                     ELSE timers
        /\ req' = [req EXCEPT ![r] = Accept([req[r] EXCEPT !.result = "ok",
                                                           !.swept = sweep],
                                            decoded, "upstream")]
  /\ UNCHANGED <<firebaseInitialized, clock, revokedTokens, revokeLog, lostRevocations>>
  /\ UNCHANGED <<trackerVars, edgeVars>>

\* mutant: the failure is remembered as an entry of the cache
UpstreamErrorCached(r, code) ==
  /\ req[r].pc = "awaiting"
  /\ req' = [req EXCEPT ![r] = Catch(req[r], code)]
  /\ revokedTokens' = CatchRevoked(req[r].token, code, revokedTokens)
  /\ IF code = "auth/id-token-revoked" THEN LogRevoke(req[r].token)
     ELSE UNCHANGED <<revokeLog, lostRevocations>>
  /\ validatedTokens' = [validatedTokens EXCEPT ![req[r].token] = Decoded(req[r].token)]
  /\ UNCHANGED <<firebaseInitialized, clock, timers>>
  /\ UNCHANGED <<trackerVars, edgeVars>>

\* verifyIdToken rejects with error.code = code: the catch block answers.
UpstreamError(r, code) ==
  /\ req[r].pc = "awaiting"
  /\ req' = [req EXCEPT ![r] = Catch(req[r], code)]
  /\ revokedTokens' = CatchRevoked(req[r].token, code, revokedTokens)
  /\ IF code = "auth/id-token-revoked" THEN LogRevoke(req[r].token)
     ELSE UNCHANGED <<revokeLog, lostRevocations>>
  /\ UNCHANGED <<firebaseInitialized, clock, validatedTokens, timers>>
  /\ UNCHANGED <<trackerVars, edgeVars>>

\* The response has gone out; the slot takes the next request.
Release(r) ==
  /\ req[r].pc = "done"
  /\ req' = [req EXCEPT ![r] = Idle]
  /\ UNCHANGED <<firebaseInitialized, clock, revokedTokens, validatedTokens,
                 timers, revokeLog, lostRevocations>>
  /\ UNCHANGED <<trackerVars, edgeVars>>

\* firebaseAuthMiddleware.revokeToken(req.userToken) of a logout route, which
\* sits behind the middleware: the token is one that passed its length check,
\* in a process whose Admin SDK is initialised.
Revoke(t) ==
  /\ firebaseInitialized
  /\ revokedTokens' = revokeToken(t, revokedTokens)
  /\ LogRevoke(t)
  /\ UNCHANGED <<firebaseInitialized, clock, validatedTokens, timers, req>>
  /\ UNCHANGED <<trackerVars, edgeVars>>

\* a scheduled removal runs: validatedTokens.delete(idToken)
TimerFire(tm) ==
  /\ tm \in DOMAIN timers
  /\ tm.at <= clock
  /\ validatedTokens' = [validatedTokens EXCEPT ![tm.token] = NoVerdict]
  /\ timers' = RemoveTimer(timers, tm)
  /\ UNCHANGED <<firebaseInitialized, clock, revokedTokens, req, revokeLog, lostRevocations>>
  /\ UNCHANGED <<trackerVars, edgeVars>>

\* The wall clock moves on whether or not a due callback has run: setTimeout
\* promises no latest time, and Date.now() can jump while timers do not.
Tick ==
  /\ clock < MaxNow
  /\ clock' = clock + 1
  /\ UNCHANGED <<firebaseInitialized, revokedTokens, validatedTokens, timers,
                 req, revokeLog, lostRevocations>>
  /\ UNCHANGED <<trackerVars, edgeVars>>

Next ==
  \/ \E r \in Reqs, h \in Headers, sweep \in BOOLEAN : Verify(r, h, sweep)
  \/ \E r \in Reqs, sweep \in BOOLEAN : UpstreamOk(r, sweep)
  \/ \E r \in Reqs, code \in ErrorCodes : UpstreamError(r, code)
  \/ \E r \in Reqs : Release(r)
  \/ \E t \in GoodTokens : Revoke(t)
  \/ \E tm \in DOMAIN timers : TimerFire(tm)
  \/ Tick

Spec == Init /\ [][Next]_vars

\* ------------------------------------------ two requests, callbacks that run

\* Tokens whose verdicts' removals all fall due before the clock stops.
LiveTokens == {1, 2}

\* the failure the provider reports for a token it no longer accepts
LiveCodes == {"auth/id-token-expired"}

\* every callback setTimeout can have been given
TimerSpace == [token : LiveTokens, at : 0 .. MaxNow]

\* callbacks waiting in the timer queue
Pending(ts) == BagCardinality(ts)

\* The provider's answer arrives while fewer than MaxPending callbacks wait.
NextLive ==
  \/ \E r \in AllReqs, h \in LiveTokens, sweep \in BOOLEAN : Verify(r, h, sweep)
  \/ \E r \in AllReqs, sweep \in BOOLEAN :
       Pending(timers) < MaxPending /\ UpstreamOk(r, sweep)
  \/ \E r \in AllReqs, code \in LiveCodes : UpstreamError(r, code)
  \/ \E r \in AllReqs : Release(r)
  \/ \E tm \in DOMAIN timers : TimerFire(tm)
  \/ Tick

\* Two requests in flight at once.  Time passes, and the event loop runs
\* every callback that is due.
SpecLive ==
  /\ Init
  /\ [][NextLive]_vars
  /\ WF_vars(Tick)
  /\ \A tm \in TimerSpace : WF_vars(TimerFire(tm))

\* ----------------------------------------------------- abuse tracker actions

RecordFailure(ip) ==
  /\ Len(failures[ip]) < MaxFailures
  /\ ipLog' = recordFailureLog(ipLog, ip, clockMs)
  /\ blacklist' = recordFailureBlacklist(ipLog, blacklist, ip, clockMs)
  /\ failures' = [failures EXCEPT ![ip] = Append(@, clockMs)]
  /\ exceeded' =
       IF Cardinality(InWindow(failures'[ip], clockMs)) > Threshold
       THEN exceeded \cup {ip} ELSE exceeded
  /\ UNCHANGED <<clockMs, authVars, edgeVars>>

\* setInterval(() => failedRequestTracker.cleanup(), 3600000)
Cleanup ==
  /\ ipLog' = cleanupLog(ipLog, clockMs)
  /\ blacklist' = cleanupBlacklist(ipLog, blacklist, clockMs)
  /\ UNCHANGED <<clockMs, failures, exceeded, authVars, edgeVars>>

TickMs ==
  /\ clockMs < MaxNowMs
  /\ clockMs' = clockMs + 1
  /\ UNCHANGED <<ipLog, blacklist, failures, exceeded, authVars, edgeVars>>

InitTracker == Init /\ firebaseInitialized

\* ------------------------------------------------------------ router actions

\* A request enters the router: requestTimeout arms its timer and calls
\* next(); apiKeyAuth answers or passes the request to firebaseAuthMiddleware,
\* which suspends in verifyIdToken.
Arrive(r, key, configured) ==
  /\ route[r].pc = "idle"
  /\ LET armed == [NotRouted EXCEPT !.key = key, !.configured = configured,
                                    !.timer = "armed"]
         out == apiKeyAuth(key, configured)
     IN route' = [route EXCEPT ![r] =
                    IF out.status = 0
                    THEN [armed EXCEPT !.pc = "awaiting", !.nexts = 1]
                    ELSE [resJson(armed, out) EXCEPT !.pc = "done"]]
  /\ UNCHANGED <<authVars, trackerVars, gateVars, mailVars>>

\* The deadline passes and the timer has not been cleared.
TimeoutFires(r) ==
  /\ route[r].timer = "armed"
  /\ route' = [route EXCEPT ![r] = timeoutCallback(route[r])]
  /\ UNCHANGED <<authVars, trackerVars, gateVars, mailVars>>

\* verifyIdToken settles: the catch block of firebaseAuthMiddleware answers
\* (ok = FALSE), or next() runs the handlers behind it, which answer.
HandlerCompletes(r, ok) ==
  /\ route[r].pc = "awaiting"
  /\ route' = [route EXCEPT ![r] =
                 [resJson(route[r], IF ok THEN RespHandler ELSE RespInvalid)
                    EXCEPT !.pc = "done"]]
  /\ UNCHANGED <<authVars, trackerVars, gateVars, mailVars>>

\* res.on('finish') / res.on('close'): clearTimeout(timeoutId)
Finish(r) ==
  /\ route[r].headersSent
  /\ route[r].timer = "armed"
  /\ route' = [route EXCEPT ![r].timer = "cleared"]
  /\ UNCHANGED <<authVars, trackerVars, gateVars, mailVars>>

\* The request is over; the slot takes the next one.
Leave(r) ==
  /\ route[r].pc = "done"
  /\ route[r].timer # "armed"
  /\ route' = [route EXCEPT ![r] = NotRouted]
  /\ UNCHANGED <<authVars, trackerVars, gateVars, mailVars>>

NextRoute ==
  \/ \E r \in AllReqs, key \in KeyHeaders, configured \in ConfiguredKeys :
       Arrive(r, key, configured)
  \/ \E r \in AllReqs : TimeoutFires(r)
  \/ \E r \in AllReqs, ok \in BOOLEAN : HandlerCompletes(r, ok)
  \/ \E r \in AllReqs : Finish(r)
  \/ \E r \in AllReqs : Leave(r)

SpecRoute == InitTracker /\ [][NextRoute]_vars

\* ---------------------------------------------------- email service actions

\* sendWelcomeEmail / sendLoginNotification for a recipient: the rate-limit
\* check, then the mail handed to transporter.sendMail unless it is refused.
\* sweep is Math.random() < 0.01.
SendEmail(email, sweep) ==
  LET swept == IF sweep THEN cleanupRecipients(emailRecipientTracker, mailClock)
               ELSE emailRecipientTracker
      limited == shouldRateLimitRecipient(swept, email, mailClock)
  IN /\ ~limited => Len(mailLog[email]) < MaxMails
     /\ emailRecipientTracker' = recipientTrackerAfter(swept, email, mailClock)
     /\ mailLast' = [email |-> email, limited |-> limited, sent |-> ~limited]
     /\ mailLog' = IF limited THEN mailLog
                   ELSE [mailLog EXCEPT ![email] = Append(@, mailClock)]
     /\ UNCHANGED <<mailClock, authVars, trackerVars, gateVars, routeVars>>

TickMail ==
  /\ mailClock < MaxMailNow
  /\ mailClock' = mailClock + 1
  /\ UNCHANGED <<emailRecipientTracker, mailLast, mailLog,
                 authVars, trackerVars, gateVars, routeVars>>

NextMail ==
  \/ \E email \in Recipients, sweep \in BOOLEAN : SendEmail(email, sweep)
  \/ TickMail

SpecMail == InitTracker /\ [][NextMail]_vars

\* ----------------------------------------------- securityMiddleware actions

\* A request runs through securityMiddleware.
SecurityMiddleware(rq) ==
  LET out == securityOutcome(rq, blacklist)
  IN /\ out.recorded = 1 => Len(failures[rq.ip]) < MaxFailures
     /\ sec' = out
     /\ IF out.recorded = 1
        THEN /\ ipLog' = recordFailureLog(ipLog, rq.ip, clockMs)
             /\ blacklist' = recordFailureBlacklist(ipLog, blacklist, rq.ip, clockMs)
             /\ failures' = [failures EXCEPT ![rq.ip] = Append(@, clockMs)]
             /\ exceeded' =
                  IF Cardinality(InWindow(failures'[rq.ip], clockMs)) > Threshold
                  THEN exceeded \cup {rq.ip} ELSE exceeded
        ELSE UNCHANGED <<ipLog, blacklist, failures, exceeded>>
     /\ UNCHANGED <<clockMs, authVars, mailVars, routeVars>>

NextSecurity ==
  \/ \E rq \in Requests : SecurityMiddleware(rq)
  \/ Cleanup
  \/ TickMs

SpecSecurity == InitTracker /\ [][NextSecurity]_vars

NextTracker ==
  \/ \E ip \in Addresses : RecordFailure(ip)
  \/ Cleanup
  \/ TickMs

SpecTracker == InitTracker /\ [][NextTracker]_vars

\* ------------------------------------------------------------------ claims

\* request r enters the middleware in this step
Entered(r) == req[r].pc = "idle" /\ req'[r].pc # "idle"

\* the upstream call of request r fails in this step
Failed(r) ==
  req[r].pc = "awaiting" /\ req'[r].pc = "done" /\ req'[r].result \in ErrorCodes

\* C1: revocation wins.  A verify of a token that was revoked, with no clear of
\* the set since, is answered "Token has been revoked": it is not passed on,
\* the cache is not looked up and no upstream call is made, whatever the cache
\* holds for the token.
RevocationWins ==
  [][\A r \in AllReqs :
       (firebaseInitialized /\ Entered(r) /\ req'[r].token \in revokeLog)
         => /\ req'[r].pc = "done"
            /\ req'[r].sent = <<RespRevoked>>
            /\ req'[r].nexts = 0
            /\ req'[r].user = NoVerdict
            /\ req'[r].upstream = 0
            /\ "cache" \notin req'[r].lookups]_vars

\* a revoked token with an unexpired cached verdict was answered Revoked
RevokedDespiteCache ==
  \E r \in AllReqs :
    /\ req[r].pc = "done"
    /\ req[r].sent = <<RespRevoked>>
    /\ req[r].token \in revokeLog
    /\ CacheUsable(validatedTokens[req[r].token], clock)

\* C2: no stale hit.  A verify of a token whose cached verdict has exp <= now
\* does not answer from the cache: a revoked token is rejected, any other goes
\* upstream; a verdict is taken from the cache only while now < its exp, and
\* an acceptance after an upstream call carries the upstream's verdict.
NoStaleHit ==
  [][\A r \in AllReqs :
       /\ (/\ Entered(r)
           /\ req'[r].token \in GoodTokens
           /\ validatedTokens[req'[r].token] # NoVerdict
           /\ validatedTokens[req'[r].token].exp <= clock)
            => /\ req'[r].src # "cache"
               /\ req'[r].nexts = 0
               /\ IF req'[r].token \in revokedTokens
                  THEN req'[r].sent = <<RespRevoked>>
                  ELSE req'[r].pc = "awaiting" /\ req'[r].upstream = 1
       /\ (Entered(r) /\ req'[r].src = "cache")
            => clock < validatedTokens[req'[r].token].exp
       /\ (req[r].pc = "awaiting" /\ req'[r].pc = "done" /\ req'[r].nexts = 1)
            => /\ req'[r].src = "upstream"
               /\ req'[r].result = "ok"
               /\ req'[r].user = Decoded(req'[r].token)]_vars

\* a request went upstream although the cache held a (stale) verdict
StaleEntryWentUpstream ==
  \E r \in AllReqs :
    /\ req[r].pc = "awaiting"
    /\ validatedTokens[req[r].token] # NoVerdict
    /\ validatedTokens[req[r].token].exp <= req[r].now

\* C3 (as claimed): after revokeToken(T) the token is in the revocation set,
\* whatever the set held before.
RevokeAddsToken ==
  [][\A t \in GoodTokens : Revoke(t) => t \in revokedTokens']_vars

\* C4 (as claimed): revoking a token twice leaves the set that revoking it
\* once leaves, from every reachable revocation set.
RevokeIdempotent ==
  \A t \in GoodTokens :
    revokeToken(t, revokeToken(t, revokedTokens)) = revokeToken(t, revokedTokens)

\* C6: a token shorter than 50 or longer than 4096 characters is rejected
\* before any lookup: one rejection ("Invalid token format" for a non-empty
\* token), neither the revocation set nor the cache consulted, no upstream
\* call, and the cache, its timers and the revocation set left as they were.
MalformedBeforeLookup ==
  [][\A r \in AllReqs :
       (/\ firebaseInitialized
        /\ Entered(r)
        /\ req'[r].token \in Tokens
        /\ SuspiciousLength(req'[r].token))
         => /\ req'[r].pc = "done"
            /\ req'[r].nexts = 0
            /\ Len(req'[r].sent) = 1
            /\ (TokenLen(req'[r].token) > 0 => req'[r].sent = <<RespMalformed>>)
            /\ req'[r].lookups = {}
            /\ req'[r].upstream = 0
            /\ UNCHANGED <<revokedTokens, validatedTokens, timers>>]_vars

\* a 49-character token was rejected while both structures held entries
ShortTokenRejected ==
  \E r \in AllReqs :
    /\ req[r].pc = "done"
    /\ req[r].token = ShortToken
    /\ req[r].sent = <<RespMalformed>>
    /\ revokedTokens # {}
    /\ \E t \in GoodTokens : validatedTokens[t] # NoVerdict

\* C7: cache hit.  A verify of a token that is not revoked and has a cached
\* verdict with now < exp is passed on with exactly that verdict and makes no
\* upstream call.
CacheHit ==
  [][\A r \in AllReqs :
       (/\ Entered(r)
        /\ req'[r].token \in GoodTokens
        /\ req'[r].token \notin revokedTokens
        /\ validatedTokens[req'[r].token] # NoVerdict
        /\ clock < validatedTokens[req'[r].token].exp)
         => /\ req'[r].pc = "done"
            /\ req'[r].nexts = 1
            /\ req'[r].sent = <<>>
            /\ req'[r].user = validatedTokens[req'[r].token]
            /\ req'[r].src = "cache"
            /\ req'[r].upstream = 0]_vars

\* a request was served from the cache in the last tick before the expiry
HitBeforeExpiry ==
  \E r \in AllReqs :
    /\ req[r].pc = "done"
    /\ req[r].src = "cache"
    /\ req[r].upstream = 0
    /\ req[r].user = validatedTokens[req[r].token]
    /\ req[r].user.exp = clock + 1

\* C8: failures are never cached.  When the upstream call fails, with any
\* error code, the request is rejected once, the cache and its timers are
\* what they were, and a verify of the same token would go upstream again
\* unless the token is in the revocation set.
FailureNotCached ==
  [][\A r \in AllReqs :
       Failed(r)
         => /\ req'[r].nexts = 0
            /\ Len(req'[r].sent) = 1
            /\ UNCHANGED <<validatedTokens, timers>>
            /\ \/ req'[r].token \in revokedTokens'
               \/ BeginVerify(req'[r].token, firebaseInitialized', clock',
                              revokedTokens', validatedTokens').pc = "awaiting"]_vars

\* an upstream call failed as expired and the token has no cache entry
ExpiredNotCached ==
  \E r \in AllReqs :
    /\ req[r].pc = "done"
    /\ req[r].result = "auth/id-token-expired"
    /\ req[r].sent = <<RespExpired>>
    /\ validatedTokens[req[r].token] = NoVerdict

\* the answers given to an invalid token and to an unclassified error code
InvalidOrUnclassified ==
  {ErrorResponse(c) : c \in {"auth/invalid-id-token"} \cup UnclassifiedCodes}

OneDefiniteOutcome ==
  \A r \in AllReqs :
    /\ req[r].pc = "done"
         => /\ Len(req[r].sent) + req[r].nexts = 1
            /\ req[r].nexts = 1 <=> req[r].user # NoVerdict
            /\ req[r].result \in ErrorCodes => Len(req[r].sent) = 1
    /\ req[r].pc # "done" => req[r].sent = <<>> /\ req[r].nexts = 0

\* an upstream failure without a case of its own ended in one rejection
UnclassifiedFailureRejected ==
  \E r \in AllReqs :
    /\ req[r].pc = "done"
    /\ req[r].result \in UnclassifiedCodes
    /\ Len(req[r].sent) = 1
    /\ req[r].nexts = 0

\* C5: an address that had more than Threshold recordFailure calls inside one
\* trailing window is blacklisted, and stays blacklisted in every later
\* state, whatever recordFailure, cleanup and the clock do afterwards.
BlockedOnceExceeded == \A ip \in exceeded : isBlacklisted(ip, blacklist)

\* an address stays blocked after the sweep has dropped its attempt record
BlockedAfterRecordDropped ==
  \E ip \in exceeded :
    /\ isBlacklisted(ip, blacklist)
    /\ ip \notin DOMAIN ipLog
    /\ Len(failures[ip]) = Threshold + 1

\* C11: blocked is terminal.  No step of the tracker (recordFailure, cleanup,
\* the clock moving past an address's attempts) takes an address out of the
\* blacklist.
BlacklistOnlyGrows == [][blacklist \subseteq blacklist']_vars

\* an address is still blocked when its last failure has left the window
\* and its record is gone
BlockedWithoutRecord ==
  \E ip \in blacklist :
    /\ ip \notin DOMAIN ipLog
    /\ InWindow(failures[ip], clockMs) = {}
    /\ \E other \in blacklist : other # ip

\* C13: only in-window attempts count.  recordFailure(A) at time now leaves A
\* blocked exactly when A was blocked already or the calls for A with
\* now - t < window, the new one included, number more than the threshold;
\* an address that never had more than threshold calls inside one trailing
\* window is not blocked.
OnlyWindowCounts ==
  [][/\ \A ip \in Addresses :
          failures'[ip] # failures[ip]
            => blacklist' =
                 IF Cardinality(InWindow(failures'[ip], clockMs)) > Threshold
                 THEN blacklist \cup {ip} ELSE blacklist
     /\ blacklist' \subseteq exceeded']_vars

\* an address with more than threshold failures in all, of which exactly
\* threshold lie inside the window, is not blocked
SpreadFailuresNotBlocked ==
  \E ip \in Addresses :
    /\ Len(failures[ip]) > Threshold
    /\ Cardinality(InWindow(failures[ip], clockMs)) = Threshold
    /\ ip \in DOMAIN ipLog
    /\ ~isBlacklisted(ip, blacklist)

\* C19: cleanup() at time now leaves every tracked address with exactly its
\* previous timestamps t with now - t < window, in their order, drops every
\* address that has none left, and takes nothing out of the blacklist.
CleanupPrunesAndDrops ==
  [][Cleanup =>
       /\ DOMAIN ipLog' =
            {ip \in DOMAIN ipLog :
               \E i \in 1 .. Len(ipLog[ip]) : (clockMs - ipLog[ip][i]) < Window}
       /\ \A ip \in DOMAIN ipLog' :
            /\ ipLog'[ip] # <<>>
            /\ ipLog'[ip] = SelectSeq(ipLog[ip], LAMBDA t : (clockMs - t) < Window)
       /\ blacklist \subseteq blacklist']_vars

\* one address lost its record and another lost only its older attempts
OneDroppedOnePruned ==
  \E ip \in Addresses, other \in DOMAIN ipLog :
    /\ failures[ip] # <<>>
    /\ ip \notin DOMAIN ipLog
    /\ Len(ipLog[other]) < Len(failures[other])
    /\ Len(ipLog[other]) = Cardinality(InWindow(failures[other], clockMs))
    /\ ipLog[other][1] < clockMs

\* C20: in every reachable state, and so after every cleanup(), a tracked
\* address whose in-window attempts number more than the threshold is
\* blacklisted.
OverThresholdIsBlocked ==
  \A ip \in DOMAIN ipLog :
    Len(RecentAttempts(ipLog[ip], clockMs)) > Threshold => isBlacklisted(ip, blacklist)

\* an address over the threshold is tracked and blocked after a sweep that
\* dropped the other address's record
OverThresholdAfterSweep ==
  \E ip \in DOMAIN ipLog, other \in Addresses :
    /\ Len(RecentAttempts(ipLog[ip], clockMs)) > Threshold
    /\ isBlacklisted(ip, blacklist)
    /\ failures[other] # <<>>
    /\ other \notin DOMAIN ipLog

\* C12: the revocation set is bounded.  After every step its cardinality is
\* at most the ceiling; a step that changes it either adds one token or, when
\* the insertion into a full set would go above the ceiling, leaves it empty:
\* nothing is evicted singly.
RevocationSetBounded ==
  [][/\ Cardinality(revokedTokens') <= RevokedCeiling
     /\ revokedTokens' # revokedTokens =>
          \/ \E t \in GoodTokens \ revokedTokens :
               /\ Cardinality(revokedTokens) < RevokedCeiling
               /\ revokedTokens' = revokedTokens \cup {t}
          \/ /\ Cardinality(revokedTokens) = RevokedCeiling
             /\ revokedTokens' = {}]_vars

\* the set was emptied by the revocation that found it full
SetEmptiedAtCeiling ==
  /\ revokedTokens = {}
  /\ Cardinality(lostRevocations) = RevokedCeiling

\* C14: clear-on-overflow forgets revocations.  A revocation leaves the cache
\* as it was, and a verify of a token that a clear() took out of the set is
\* treated as a verify of a token never revoked: passed on from an unexpired
\* cached verdict, sent upstream otherwise, never answered "revoked".
ClearForgetsRevocation ==
  [][/\ revokedTokens' # revokedTokens => validatedTokens' = validatedTokens
     /\ \A r \in AllReqs :
          (firebaseInitialized /\ Entered(r) /\ req'[r].token \in lostRevocations)
            => IF CacheUsable(validatedTokens[req'[r].token], clock)
               THEN /\ req'[r].pc = "done"
                    /\ req'[r].nexts = 1
                    /\ req'[r].src = "cache"
                    /\ req'[r].sent = <<>>
               ELSE /\ req'[r].pc = "awaiting"
                    /\ req'[r].upstream = 1]_vars

\* a token revoked before the set overflowed was passed on from the cache
RevokedTokenAccepted ==
  \E r \in AllReqs :
    /\ req[r].pc = "done"
    /\ req[r].lost
    /\ req[r].nexts = 1
    /\ req[r].src = "cache"
    /\ req[r].user = Decoded(req[r].token)
    /\ req[r].token \in lostRevocations

\* pending callbacks that delete token's entry at time at
TimerCount(ts, tm) == IF tm \in DOMAIN ts THEN ts[tm] ELSE 0

CachedVerdictsAuthentic ==
  [][/\ \A t \in GoodTokens :
          /\ validatedTokens'[t] \in {NoVerdict, Decoded(t)}
          /\ (validatedTokens'[t] # validatedTokens[t] /\ validatedTokens'[t] # NoVerdict)
               => \E r \in AllReqs :
                    /\ req[r].pc = "awaiting"
                    /\ req[r].token = t
                    /\ req'[r].result = "ok"
                    /\ validatedTokens'[t] = Decoded(t)
     /\ \A r \in AllReqs :
          (Entered(r) /\ req'[r].src = "cache")
            => /\ req'[r].user = validatedTokens[req'[r].token]
               /\ req'[r].user.uid = req'[r].token]_vars

\* a hit for one token while another token's verdict is cached as well
HitAmongOtherVerdicts ==
  \E r \in AllReqs, other \in GoodTokens :
    /\ req[r].pc = "done"
    /\ req[r].src = "cache"
    /\ req[r].user = Decoded(req[r].token)
    /\ other # req[r].token
    /\ validatedTokens[other] = Decoded(other)

\* C17: the sweep evicts exactly the expired verdicts.  When a request runs
\* the clean-up loop at time now, the cache it leaves has no entry with
\* exp <= now, and every entry with exp > now of the cache the loop found
\* (the request's own fresh verdict included) is still there, unchanged.
SweepEvictsExactlyExpired ==
  [][\A r \in AllReqs :
       (req[r].pc # "done" /\ req'[r].pc = "done" /\ req'[r].swept)
         => LET t == req'[r].token
                found == IF req'[r].src = "upstream"
                         THEN [validatedTokens EXCEPT ![t] = req'[r].user]
                         ELSE validatedTokens
            IN \A k \in GoodTokens :
                 /\ validatedTokens'[k] # NoVerdict => validatedTokens'[k].exp > clock
                 /\ (found[k] # NoVerdict /\ found[k].exp > clock)
                      => validatedTokens'[k] = found[k]]_vars

\* a sweep removed an expired verdict whose removal callback has not run,
\* and kept an unexpired one
SweptBeforeCallback ==
  \E r \in AllReqs, gone \in GoodTokens, kept \in GoodTokens :
    /\ req[r].pc = "done"
    /\ req[r].swept
    /\ req[r].src = "cache"
    /\ validatedTokens[gone] = NoVerdict
    /\ TokenExp(gone) <= clock
    /\ \E tm \in DOMAIN timers : tm.token = gone
    /\ validatedTokens[kept] = Decoded(kept)

\* C18: no verdict stays cached forever.  With the removal callbacks run once
\* they are due, a verdict in the cache is eventually deleted, whichever
\* request stored it and however often the token was stored before.
EveryVerdictDeleted ==
  \A t \in LiveTokens :
    (validatedTokens[t] # NoVerdict) ~> (validatedTokens[t] = NoVerdict)

\* two verifications of one token were in flight together; the callback of
\* the first ran before the second stored the verdict again, whose own
\* callback is pending
StoredAgainAfterRemoval ==
  \E t \in LiveTokens :
    /\ \A r \in AllReqs :
         req[r].pc = "done" /\ req[r].token = t /\ req[r].result = "ok"
    /\ validatedTokens[t] = Decoded(t)
    /\ Cardinality({tm \in DOMAIN timers : tm.token = t}) = 1
    /\ \A tm \in DOMAIN timers : tm.token = t => timers[tm] = 1

\* C21: recordFailure(A) at time now leaves A's record equal to its earlier
\* timestamps t with now - t < window, in their order, followed by now, and
\* leaves the record and the blocked status of every other address as they
\* were.
RecordFailureFrame ==
  [][\A ip \in Addresses :
       failures'[ip] # failures[ip]
         => LET old == IF ip \in DOMAIN ipLog THEN ipLog[ip] ELSE <<>>
            IN /\ ipLog'[ip] =
                    Append(SelectSeq(old, LAMBDA t : (clockMs - t) < Window), clockMs)
               /\ \A other \in Addresses \ {ip} :
                    /\ (other \in DOMAIN ipLog') = (other \in DOMAIN ipLog)
                    /\ other \in DOMAIN ipLog => ipLog'[other] = ipLog[other]
                    /\ (other \in blacklist') = (other \in blacklist)]_vars

\* a failure was just recorded for one address, whose stale attempts went,
\* while the other address still holds a stale attempt
PrunedOnAccessOnly ==
  \E ip \in DOMAIN ipLog, other \in DOMAIN ipLog :
    /\ other # ip
    /\ ipLog[ip][Len(ipLog[ip])] = clockMs
    /\ Len(ipLog[ip]) < Len(failures[ip])
    /\ (clockMs - ipLog[other][1]) >= Window
    /\ other \notin blacklist

\* C25 (as claimed): revocation holds against in-flight requests.  A verify
\* of T that comes back from the upstream call while T is in the revocation
\* set (revoked, with no clear since) is not passed on and stores no verdict
\* for T.
RevocationHoldsInFlight ==
  [][\A r \in AllReqs :
       (/\ req[r].pc = "awaiting"
        /\ req'[r].pc = "done"
        /\ req[r].token \in revokeLog
        /\ req[r].token \in revokedTokens)
         => /\ req'[r].nexts = 0
            /\ req'[r].user = NoVerdict
            /\ validatedTokens'[req[r].token] = validatedTokens[req[r].token]]_vars

\* C26 (as claimed): when the upstream rejects T as revoked, T is in the
\* revocation set when the request has been answered; a failure of any other
\* kind leaves the revocation set as it was.
UpstreamRevocationRemembered ==
  [][\A r \in AllReqs :
       Failed(r)
         => IF req'[r].result = "auth/id-token-revoked"
            THEN isTokenRevoked(req[r].token, revokedTokens')
            ELSE revokedTokens' = revokedTokens]_vars

\* a request went through securityMiddleware in this step
SecCalled == sec' # sec \/ failures' # failures

\* a method that changes state
StateChanging(method) == method \in {"POST", "PUT", "PATCH", "DELETE"}

\* a content type that is none of JSON, url-encoded form and multipart form,
\* whatever its parameters
MalformedContentType(contentType) ==
  \/ contentType = <<>>
  \/ contentType[1] \notin {"application/json", "application/x-www-form-urlencoded",
                             "multipart/form-data"}

\* C22 (as claimed): failure triggers.  A request from an address that is not
\* blocked, with a known scanner's user agent, or an attack pattern in its
\* body or query, or a state-changing method and a malformed content type,
\* causes exactly one recordFailure for its address and is rejected without
\* next(); a request with none of the three records nothing and is passed on.
FailureTriggers ==
  [][(SecCalled /\ ~isBlacklisted(sec'.request.ip, blacklist))
       => LET rq == sec'.request
          IN IF \/ SuspiciousAgent(rq)
                \/ MaliciousPattern(rq)
                \/ StateChanging(rq.method) /\ MalformedContentType(rq.contentType)
             THEN /\ Len(failures'[rq.ip]) = Len(failures[rq.ip]) + 1
                  /\ sec'.nexts = 0
                  /\ sec'.status \in {400, 403}
             ELSE /\ failures' = failures
                  /\ sec'.nexts = 1
                  /\ sec'.status = 0]_vars

\* C23: a request from a blocked address is answered 403 "Access denied"
\* before any other check: next() is not called, no security header is set,
\* no failure is recorded, and the tracker is left as it was.
BlockedRejectedFirst ==
  [][(SecCalled /\ isBlacklisted(sec'.request.ip, blacklist))
       => /\ sec'.status = 403
          /\ sec'.message = "Access denied"
          /\ sec'.nexts = 0
          /\ sec'.recorded = 0
          /\ ~sec'.headers
          /\ ipLog' = ipLog
          /\ blacklist' = blacklist
          /\ failures' = failures]_vars

\* a scanner's request from a blocked address was turned away unexamined
BlockedScannerTurnedAway ==
  /\ isBlacklisted(sec.request.ip, blacklist)
  /\ SuspiciousAgent(sec.request)
  /\ sec.status = 403
  /\ sec.nexts = 0
  /\ sec.recorded = 0
  /\ ~sec.headers
  /\ Len(failures[sec.request.ip]) = Threshold + 1

\* a send function was called in this step
MailCalled ==
  \/ mailLast' # mailLast
  \/ mailLog' # mailLog
  \/ emailRecipientTracker' # emailRecipientTracker

\* the start of the window that the k-th let-through call of a recipient fell
\* in: the first call opens a window, and so does every call that comes more
\* than the window's length after the start of the window before it
RECURSIVE WindowStartOf(_, _)
WindowStartOf(log, k) ==
  IF k = 1 THEN log[1]
  ELSE LET start == WindowStartOf(log, k - 1)
       IN IF log[k] - start > MailWindow THEN log[k] ELSE start

\* the let-through calls that fell in the same window as the k-th
SameWindow(log, k) ==
  {i \in 1 .. Len(log) : WindowStartOf(log, i) = WindowStartOf(log, k)}

\* C24 (as claimed): at most maxEmails calls for one recipient are let
\* through within any stretch of time as long as the window.
AtMostFiveInAnyWindow ==
  \A email \in Recipients, from \in 0 .. MaxMailNow :
    Cardinality({i \in 1 .. Len(mailLog[email]) :
                   /\ from <= mailLog[email][i]
                   /\ mailLog[email][i] <= from + MailWindow}) <= maxEmails

\* C24 (amended): at most maxEmails calls for one recipient are let through
\* within one of the limiter's own windows, which opens at the first call let
\* through after the window before it ran out; a further call inside a full
\* window returns true and no mail is handed over.
AtMostFivePerWindow ==
  [][/\ \A email \in Recipients :
          \A k \in 1 .. Len(mailLog'[email]) :
            Cardinality(SameWindow(mailLog'[email], k)) <= maxEmails
     /\ MailCalled =>
          LET email == mailLast'.email
              log == mailLog[email]
          IN (/\ log # <<>>
              /\ mailClock - WindowStartOf(log, Len(log)) <= MailWindow
              /\ Cardinality(SameWindow(log, Len(log))) >= maxEmails)
               => /\ mailLast'.limited
                  /\ ~mailLast'.sent
                  /\ mailLog' = mailLog]_vars

\* the call after the fifth of a recipient's second window was refused
SixthInWindowRefused ==
  \E email \in DOMAIN emailRecipientTracker :
    /\ mailLast = [email |-> email, limited |-> TRUE, sent |-> FALSE]
    /\ Len(mailLog[email]) > maxEmails
    /\ Cardinality(SameWindow(mailLog[email], Len(mailLog[email]))) = maxEmails
    /\ emailRecipientTracker[email].count = maxEmails

\* C28: a refused call leaves the recipient's count and window start as they
\* were, and the first call made more than the window's length after the
\* window start is let through and restarts the window with count 1.
RefusalLeavesWindow ==
  [][MailCalled =>
       LET email == mailLast'.email
       IN /\ mailLast'.limited
               => /\ email \in DOMAIN emailRecipientTracker
                  /\ emailRecipientTracker[email].count = maxEmails
                  /\ emailRecipientTracker'[email] = emailRecipientTracker[email]
          /\ (/\ email \in DOMAIN emailRecipientTracker
              /\ mailClock - emailRecipientTracker[email].timestamp > MailWindow)
               => /\ ~mailLast'.limited
                  /\ mailLast'.sent
                  /\ emailRecipientTracker'[email] =
                       [count |-> 1, timestamp |-> mailClock]]_vars

\* a call was refused later than every call let through, and the window
\* still starts where it started
RefusedLaterWindowKept ==
  \E email \in DOMAIN emailRecipientTracker :
    /\ mailLast = [email |-> email, limited |-> TRUE, sent |-> FALSE]
    /\ mailLog[email][Len(mailLog[email])] < mailClock
    /\ emailRecipientTracker[email].timestamp = WindowStartOf(mailLog[email], maxEmails)
    /\ emailRecipientTracker[email].timestamp < mailClock
    /\ emailRecipientTracker[email].count = maxEmails

\* C27 (as claimed): under the timeout race one side sends the response and
\* the other never attempts a second one, so no request sees more than one
\* attempt to send.
OneSendAttempt ==
  \A r \in AllReqs : route[r].attempts <= 1

\* C29: apiKeyAuth calls next exactly when the x-api-key header equals the
\* configured key; a missing key, a key of another length and a wrong key of
\* the same length are each answered without next, and with no key configured
\* every request is answered without next.
ApiKeyGate ==
  [][\A r \in AllReqs :
       (route[r].pc = "idle" /\ route'[r].pc # "idle") =>
         LET key == route'[r].key
             configured == route'[r].configured
             present == key # NoApiKey /\ key # <<>>
             passed == route'[r].nexts = 1 /\ route'[r].sent = <<>>
         IN /\ passed <=> (present /\ key = configured)
            /\ ~passed => route'[r].nexts = 0 /\ Len(route'[r].sent) = 1
            /\ ~present => route'[r].sent = <<RespKeyRequired>>
            /\ (present /\ Len(key) # Len(configured))
                 => route'[r].sent = <<RespKeyFailed>>
            /\ (present /\ Len(key) = Len(configured) /\ key # configured)
                 => route'[r].sent = <<RespKeyDenied>>
            /\ configured = <<>> => ~passed]_vars

\* one request was passed on with the configured key while another, with a
\* wrong key of the same length, was turned away
KeyPassedAndKeyDenied ==
  \E r, q \in AllReqs :
    /\ route[r].pc = "awaiting"
    /\ route[r].nexts = 1
    /\ route[r].key = route[r].configured
    /\ route[q].configured = route[r].configured
    /\ route[q].pc = "done"
    /\ route[q].nexts = 0
    /\ route[q].key # route[q].configured
    /\ Len(route[q].key) = Len(route[q].configured)
    /\ route[q].sent = <<RespKeyDenied>>

====
